---- MODULE Spec2Model ----
(***************************************************************************)
(* Order assignment engine of the ride-sharing backend:                    *)
(* OrderAssignmentService (assignOrder, offerOrderToDriver,                *)
(* handleDriverResponse, cleanupExpiredLocks, markOrderAsFailed), the      *)
(* Order model methods it calls, the Redis lock keys, the retry timers and *)
(* the driver manual-request route.  Every `await` of the source is one    *)
(* atomic step of a process; the steps of concurrently running requests    *)
(* interleave freely.                                                      *)
(***************************************************************************)
EXTENDS Integers, Sequences, FiniteSets, TLC

(***************************************************************************)
(* Bounds of the model                                                     *)
(***************************************************************************)
Orders == {"o1", "o2"}
Drivers == {"d1", "d2"}
\* a larger fleet, all in reach of the pickup point: more candidates than one call of
\* assignOrder tries
Fleet == {"d1", "d2", "d3", "d4", "d5", "d6"}
\* number of requests / callbacks that may be in flight at the same time
MaxProcs == 2
\* the retry timer of an order fires only while the order has fewer attempts
MaxAttempts == 2
\* the clock advances in steps of TickSeconds up to MaxTime
TickSeconds == 300
MaxTime == 600

Procs == 1..MaxProcs

(***************************************************************************)
(* Program constants                                                       *)
(***************************************************************************)
\* parseInt(process.env.ORDER_LOCK_TIMEOUT) || 300
lockTimeout == 300
\* setEx(lockKey, 300, 'locked')
assignmentLockSeconds == 300
\* const maxRetries = 10
maxRetries == 10
\* nearbyDrivers.slice(0, 5)
topCandidates == 5

Null == "null"
\* this.lockExpiration = null
NoDate == -1
\* lockedBy and lockExpiration have no default: a path never assigned is undefined,
\* and assigning null to it modifies it
Undefined == "undefined"
UndefinedDate == -2

\* the enum with 'failed' added
StatusEnumWithFailed ==
  {"pending", "accepted", "pickup_started", "picked_up", "in_transit", "delivered",
   "cancelled", "failed"}

\* enum of orderSchema.status
StatusEnum == {"pending", "accepted", "pickup_started", "picked_up",
               "in_transit", "delivered", "cancelled"}

\* distance of each driver's currentLocation to the pickup point, in 100 m
distanceToPickup ==
  [d \in Fleet |->
     CASE d = "d1" -> 12 [] d = "d2" -> 30 [] d = "d3" -> 34
       [] d = "d4" -> 41 [] d = "d5" -> 45 [] d = "d6" -> 48]

VARIABLES
  orders,       \* the Order collection: orderId -> document
  isAvailable,  \* driverDetails.isAvailable of each driver
  redis,        \* the Redis store: key -> [val, exp]
  now,          \* the clock, in seconds
  procs,        \* the requests / callbacks in flight
  timers,       \* pending setTimeout retries per order
  emitted       \* 'order_failed' events emitted to customers so far

vars == <<orders, isAvailable, redis, now, procs, timers, emitted>>

(***************************************************************************)
(* Order documents (orderSchema) and the model methods                     *)
(***************************************************************************)
NewOrder ==
  [status |-> "pending", driver |-> Null, attempts |-> <<>>,
   isLocked |-> FALSE, lockedBy |-> Undefined, lockExpiration |-> UndefinedDate, v |-> 0]

NoDoc ==
  [status |-> "none", driver |-> Null, attempts |-> <<>>,
   isLocked |-> FALSE, lockedBy |-> Null, lockExpiration |-> NoDate, v |-> 0]

updateStatus(doc, newStatus, driverId) ==
  IF newStatus = "accepted"
    THEN [doc EXCEPT !.status = newStatus, !.driver = driverId]
    ELSE [doc EXCEPT !.status = newStatus]

lockForDriver(doc, driverId, timeoutMinutes, t) ==
  [doc EXCEPT !.isLocked = TRUE, !.lockedBy = driverId,
              !.lockExpiration = t + timeoutMinutes * 60]

releaseLock(doc) ==
  [doc EXCEPT !.isLocked = FALSE, !.lockedBy = Null, !.lockExpiration = NoDate]

(***************************************************************************)
(* document.save(): validates, then writes the modified paths only.  A     *)
(* pushed array element goes out as $push and increments the version; a    *)
(* changed element of the array goes out as a positional $set guarded by   *)
(* the version the document was loaded with.                               *)
(***************************************************************************)
PositionalDirty(old, new) ==
  \E i \in 1..Len(old.attempts) : new.attempts[i] # old.attempts[i]

Pushed(old, new) == SubSeq(new.attempts, Len(old.attempts) + 1, Len(new.attempts))

SaveResult(db, old, new) ==
  IF new.status # old.status /\ new.status \notin StatusEnum THEN "ValidationError"
  ELSE IF PositionalDirty(old, new) /\ db.v # old.v THEN "VersionError"
  ELSE "ok"

SavedDoc(db, old, new) ==
  [status         |-> IF new.status # old.status THEN new.status ELSE db.status,
   driver         |-> IF new.driver # old.driver THEN new.driver ELSE db.driver,
   isLocked       |-> IF new.isLocked # old.isLocked THEN new.isLocked ELSE db.isLocked,
   lockedBy       |-> IF new.lockedBy # old.lockedBy THEN new.lockedBy ELSE db.lockedBy,
   lockExpiration |-> IF new.lockExpiration # old.lockExpiration
                        THEN new.lockExpiration ELSE db.lockExpiration,
   attempts       |-> [i \in 1..Len(db.attempts) |->
                         IF i <= Len(old.attempts) /\ new.attempts[i] # old.attempts[i]
                           THEN [db.attempts[i] EXCEPT !.response = new.attempts[i].response]
                           ELSE db.attempts[i]]
                      \o Pushed(old, new),
   v              |-> IF Pushed(old, new) # <<>> THEN db.v + 1 ELSE db.v]

LocalAfterSave(old, new) ==
  [new EXCEPT !.v = IF Pushed(old, new) # <<>> THEN old.v + 1 ELSE old.v]

(***************************************************************************)
(* Redis: get / setEx / del, keys expire ttl seconds after their setEx     *)
(***************************************************************************)
driverLockKey(d) == <<"driver_lock", d>>
orderLockKey(o) == <<"order_lock", o>>
assignmentLockKey(o) == <<"order_assignment", o>>

KeysOf(D) == {driverLockKey(d) : d \in D \cup {Null}}
               \cup {orderLockKey(o) : o \in Orders}
               \cup {assignmentLockKey(o) : o \in Orders}
Keys == KeysOf(Drivers)

NoEntry == [val |-> Null, exp |-> NoDate]

redisGet(store, key) == store[key].val
redisSetEx(store, key, seconds, value, t) ==
  [store EXCEPT ![key] = [val |-> value, exp |-> t + seconds]]
redisDel(store, key) == [store EXCEPT ![key] = NoEntry]
\* keys written without a ttl: nothing expires
ExpireNothing(store, t) == store

Expire(store, t) ==
  [k \in Keys |-> IF store[k].val # Null /\ store[k].exp <= t THEN NoEntry ELSE store[k]]

(***************************************************************************)
(* Processes                                                               *)
(***************************************************************************)
Idle ==
  [op |-> "idle", pc |-> "idle", o |-> Null, d |-> Null, resp |-> Null,
   retry |-> FALSE, doc |-> NoDoc, cands |-> <<>>, rd |-> Null, batch |-> <<>>,
   err |-> Null]

\* throw new Error(message): the call goes to its rejection, at label
Thrown(pr, label, message) == [pr EXCEPT !.pc = label, !.err = message]

\* a new request takes the lowest free slot
FreeSlot(p) ==
  /\ procs[p].op = "idle"
  /\ \A q \in Procs : q < p => procs[q].op # "idle"

At(p, label) == procs[p].pc = label

\* no order placed yet; the drivers of `online` have switched to available
InitWith(online) ==
  /\ orders = [o \in {} |-> NewOrder]
  /\ isAvailable = [d \in Drivers |-> d \in online]
  /\ redis = [k \in Keys |-> NoEntry]
  /\ now = 0
  /\ procs = [p \in Procs |-> Idle]
  /\ timers = [o \in Orders |-> 0]
  /\ emitted = {}

(***************************************************************************)
(* findNearbyDrivers: the available drivers within the radius, nearest     *)
(* first                                                                   *)
(***************************************************************************)
\* async findNearbyDrivers(pickupLocation, radiusKm = 5)
radiusKm == 5

RECURSIVE SortByDistance(_)
SortByDistance(S) ==
  IF S = {} THEN <<>>
  ELSE LET d == CHOOSE x \in S : \A y \in S : distanceToPickup[x] <= distanceToPickup[y]
       IN <<d>> \o SortByDistance(S \ {d})

\* findNearbyDrivers sorting farthest first
findNearbyDriversFarthestFirst(avail) ==
  LET nearest == SortByDistance({d \in DOMAIN avail :
                    avail[d] /\ distanceToPickup[d] * 100 <= radiusKm * 1000})
  IN [i \in 1..Len(nearest) |-> nearest[Len(nearest) + 1 - i]]

findNearbyDrivers(avail) ==
  SortByDistance({d \in DOMAIN avail :
                    avail[d] /\ distanceToPickup[d] * 100 <= radiusKm * 1000})

Slice(s, n) == SubSeq(s, 1, IF Len(s) < n THEN Len(s) ELSE n)

(***************************************************************************)
(* Order creation (POST /orders) and the retry timer start assignOrder     *)
(***************************************************************************)
StartAssign(o, isRetry) ==
  [Idle EXCEPT !.op = "assignOrder", !.pc = "a_find", !.o = o, !.retry = isRetry]

CreateOrder(p, o) ==
  /\ FreeSlot(p)
  /\ o \notin DOMAIN orders
  /\ orders' = (o :> NewOrder) @@ orders
  /\ procs' = [procs EXCEPT ![p] = StartAssign(o, FALSE)]
  /\ UNCHANGED <<isAvailable, redis, now, timers, emitted>>

\* assignOrder(o) is called for any order id, while the order has fewer than cap
\* attempts
CallAssign(p, o, cap) ==
  /\ FreeSlot(p)
  /\ o \in DOMAIN orders => Len(orders[o].attempts) < cap
  /\ procs' = [procs EXCEPT ![p] = StartAssign(o, FALSE)]
  /\ UNCHANGED <<orders, isAvailable, redis, now, timers, emitted>>

\* setTimeout(() => this.assignOrder(orderId).catch(...), 2000)
RetryFire(p, o, cap) ==
  /\ FreeSlot(p)
  /\ timers[o] > 0
  /\ Len(orders[o].attempts) < cap
  /\ timers' = [timers EXCEPT ![o] = @ - 1]
  /\ procs' = [procs EXCEPT ![p] = StartAssign(o, TRUE)]
  /\ UNCHANGED <<orders, isAvailable, redis, now, emitted>>

(***************************************************************************)
(* assignOrder                                                             *)
(***************************************************************************)
\* assignOrder rejects: the retry callback's catch calls markOrderAsFailed
AssignThrows(pr) ==
  IF pr.retry
    THEN [Idle EXCEPT !.op = "markOrderAsFailed", !.pc = "m_find", !.o = pr.o]
    ELSE Idle

\* assignOrder without the status check: an order in any status is assigned
AssignFindAnyStatus(p) ==
  /\ At(p, "a_find")
  /\ LET pr == procs[p]
     IN procs' = [procs EXCEPT ![p] =
          IF pr.o \notin DOMAIN orders
            THEN Thrown(pr, "a_rejected", "Order not found")
          ELSE [pr EXCEPT !.pc = "a_getlock", !.doc = orders[pr.o]]]
  /\ UNCHANGED <<orders, isAvailable, redis, now, timers, emitted>>

AssignFind(p) ==
  /\ At(p, "a_find")
  /\ LET pr == procs[p]
     IN procs' = [procs EXCEPT ![p] =
          IF pr.o \notin DOMAIN orders
            THEN Thrown(pr, "a_rejected", "Order not found")
          ELSE IF orders[pr.o].status # "pending"
            THEN Thrown(pr, "a_rejected", "Order is not in pending status")
          ELSE [pr EXCEPT !.pc = "a_getlock", !.doc = orders[pr.o]]]
  /\ UNCHANGED <<orders, isAvailable, redis, now, timers, emitted>>

AssignGetLock(p) ==
  /\ At(p, "a_getlock")
  /\ LET pr == procs[p]
     IN procs' = [procs EXCEPT ![p] =
          IF redisGet(redis, assignmentLockKey(pr.o)) # Null
            THEN Thrown(pr, "a_rejected", "Order assignment already in progress")
          ELSE [pr EXCEPT !.pc = "a_setlock"]]
  /\ UNCHANGED <<orders, isAvailable, redis, now, timers, emitted>>

AssignSetLock(p) ==
  /\ At(p, "a_setlock")
  /\ redis' = redisSetEx(redis, assignmentLockKey(procs[p].o), assignmentLockSeconds,
                         "locked", now)
  /\ procs' = [procs EXCEPT ![p].pc = "a_search"]
  /\ UNCHANGED <<orders, isAvailable, now, timers, emitted>>

\* assignOrder without the nearbyDrivers.length === 0 check: the loop runs over no
\* driver and the call throws 'No driver accepted the order'
AssignSearchUnchecked(p) ==
  /\ At(p, "a_search")
  /\ LET nearbyDrivers == findNearbyDrivers(isAvailable)
     IN procs' = [procs EXCEPT ![p] =
          IF Len(nearbyDrivers) = 0
            THEN Thrown(@, "a_del_none", "No driver accepted the order")
          ELSE [@ EXCEPT !.pc = "o_getdriver",
                         !.cands = Slice(nearbyDrivers, topCandidates)]]
  /\ UNCHANGED <<orders, isAvailable, redis, now, timers, emitted>>

AssignSearch(p) ==
  /\ At(p, "a_search")
  /\ LET nearbyDrivers == findNearbyDrivers(isAvailable)
     IN procs' = [procs EXCEPT ![p] =
          IF Len(nearbyDrivers) = 0
            THEN Thrown(@, "a_del_nodrivers", "No available drivers found nearby")
          ELSE [@ EXCEPT !.pc = "o_getdriver",
                         !.cands = Slice(nearbyDrivers, topCandidates)]]
  /\ UNCHANGED <<orders, isAvailable, redis, now, timers, emitted>>

\* the offer to the current candidate failed: next candidate, or leave the loop
NextCandidate(pr) ==
  IF Len(pr.cands) > 1
    THEN [pr EXCEPT !.cands = Tail(@), !.pc = "o_getdriver"]
    ELSE Thrown([pr EXCEPT !.cands = <<>>], "a_del_none", "No driver accepted the order")

\* the success path returning without deleting the in-progress marker
AssignDelOkKeepsMarker(p) ==
  /\ At(p, "a_del_ok")
  /\ procs' = [procs EXCEPT ![p] = Idle]
  /\ UNCHANGED <<orders, isAvailable, redis, now, timers, emitted>>

AssignDelOk(p) ==
  /\ At(p, "a_del_ok")
  /\ redis' = redisDel(redis, assignmentLockKey(procs[p].o))
  /\ procs' = [procs EXCEPT ![p] = Idle]
  /\ UNCHANGED <<orders, isAvailable, now, timers, emitted>>

AssignDelThrow(p) ==
  /\ procs[p].pc \in {"a_del_nodrivers", "a_del_none"}
  /\ redis' = redisDel(redis, assignmentLockKey(procs[p].o))
  /\ procs' = [procs EXCEPT ![p].pc = "a_del_catch"]
  /\ UNCHANGED <<orders, isAvailable, now, timers, emitted>>

AssignDelCatch(p) ==
  /\ At(p, "a_del_catch")
  /\ redis' = redisDel(redis, assignmentLockKey(procs[p].o))
  /\ procs' = [procs EXCEPT ![p].pc = "a_rejected"]
  /\ UNCHANGED <<orders, isAvailable, now, timers, emitted>>

\* the promise of assignOrder rejects: the caller's .catch runs
AssignReject(p) ==
  /\ At(p, "a_rejected")
  /\ procs' = [procs EXCEPT ![p] = AssignThrows(@)]
  /\ UNCHANGED <<orders, isAvailable, redis, now, timers, emitted>>

(***************************************************************************)
(* offerOrderToDriver(order, driver), driver = Head(cands)                 *)
(***************************************************************************)
OfferGetDriver(p) ==
  /\ At(p, "o_getdriver")
  /\ LET pr == procs[p]
         driverLock == redisGet(redis, driverLockKey(Head(pr.cands)))
     IN procs' = [procs EXCEPT ![p] =
          IF driverLock # Null THEN NextCandidate(pr)
          ELSE [pr EXCEPT !.pc = "o_getorder"]]
  /\ UNCHANGED <<orders, isAvailable, redis, now, timers, emitted>>

\* offerOrderToDriver without the order-lock check
OfferGetOrderUnchecked(p) ==
  /\ At(p, "o_getorder")
  /\ procs' = [procs EXCEPT ![p].pc = "o_setdriver"]
  /\ UNCHANGED <<orders, isAvailable, redis, now, timers, emitted>>

OfferGetOrder(p) ==
  /\ At(p, "o_getorder")
  /\ LET pr == procs[p]
         orderLock == redisGet(redis, orderLockKey(pr.o))
     IN procs' = [procs EXCEPT ![p] =
          IF orderLock # Null /\ orderLock # Head(pr.cands) THEN NextCandidate(pr)
          ELSE [pr EXCEPT !.pc = "o_setdriver"]]
  /\ UNCHANGED <<orders, isAvailable, redis, now, timers, emitted>>

OfferSetDriver(p) ==
  /\ At(p, "o_setdriver")
  /\ redis' = redisSetEx(redis, driverLockKey(Head(procs[p].cands)), lockTimeout,
                         procs[p].o, now)
  /\ procs' = [procs EXCEPT ![p].pc = "o_setorder"]
  /\ UNCHANGED <<orders, isAvailable, now, timers, emitted>>

OfferSetOrder(p) ==
  /\ At(p, "o_setorder")
  /\ redis' = redisSetEx(redis, orderLockKey(procs[p].o), lockTimeout,
                         Head(procs[p].cands), now)
  /\ procs' = [procs EXCEPT ![p].pc = "o_savelock"]
  /\ UNCHANGED <<orders, isAvailable, now, timers, emitted>>

OfferSaveLock(p) ==
  /\ At(p, "o_savelock")
  /\ LET pr == procs[p]
         new == lockForDriver(pr.doc, Head(pr.cands), lockTimeout \div 60, now)
     IN IF SaveResult(orders[pr.o], pr.doc, new) = "ok"
          THEN /\ orders' = [orders EXCEPT ![pr.o] = SavedDoc(@, pr.doc, new)]
               /\ procs' = [procs EXCEPT ![p] =
                    [pr EXCEPT !.pc = "o_saveattempt", !.doc = LocalAfterSave(pr.doc, new)]]
          ELSE /\ procs' = [procs EXCEPT ![p] = NextCandidate(pr)]
               /\ UNCHANGED orders
  /\ UNCHANGED <<isAvailable, redis, now, timers, emitted>>

OfferSaveAttempt(p) ==
  /\ At(p, "o_saveattempt")
  /\ LET pr == procs[p]
         driver == Head(pr.cands)
         new == [pr.doc EXCEPT !.attempts =
                   Append(@, [driverId |-> driver, response |-> "pending"])]
     IN IF SaveResult(orders[pr.o], pr.doc, new) = "ok"
          THEN /\ orders' = [orders EXCEPT ![pr.o] = SavedDoc(@, pr.doc, new)]
               /\ procs' = [procs EXCEPT ![p] =
                    [pr EXCEPT !.pc = "a_del_ok", !.cands = <<>>,
                               !.doc = LocalAfterSave(pr.doc, new)]]
          ELSE /\ procs' = [procs EXCEPT ![p] = NextCandidate(pr)]
               /\ UNCHANGED orders
  /\ UNCHANGED <<isAvailable, redis, now, timers, emitted>>

(***************************************************************************)
(* The clock: keys whose ttl has run out are gone                          *)
(***************************************************************************)
PendingDeadline ==
  \/ \E k \in Keys : redis[k].val # Null
  \/ \E o \in DOMAIN orders : orders[o].isLocked /\ orders[o].lockExpiration >= now

Tick ==
  /\ now + TickSeconds <= MaxTime
  /\ PendingDeadline
  /\ now' = now + TickSeconds
  /\ redis' = Expire(redis, now')
  /\ UNCHANGED <<orders, isAvailable, procs, timers, emitted>>

(***************************************************************************)
(* handleDriverResponse(orderId, driverId, response)                       *)
(***************************************************************************)
\* the driver has been sent 'new_order_offer' for the order: the event is emitted
\* in the step that saves the driver's attempt record
Offered(o, d) ==
  /\ o \in DOMAIN orders
  /\ \E i \in 1..Len(orders[o].attempts) : orders[o].attempts[i].driverId = d

\* assignmentAttempts.findIndex(driverId === driverId && response === 'pending')
AttemptIndex(doc, d) ==
  LET hits == {i \in 1..Len(doc.attempts) :
                 doc.attempts[i].driverId = d /\ doc.attempts[i].response = "pending"}
  IN IF hits = {} THEN 0 ELSE CHOOSE i \in hits : \A j \in hits : i <= j

MarkAttempt(doc, d, response) ==
  LET attemptIndex == AttemptIndex(doc, d)
  IN IF attemptIndex # 0
       THEN [doc EXCEPT !.attempts[attemptIndex].response =
               IF response = "accept" THEN "accepted" ELSE "declined"]
       ELSE doc

\* handleDriverResponse(o, d, response) is called (PUT /:orderId/accept, /decline,
\* socket 'order_response'); the first await is Order.findOne
CallRespond(p, o, d, response) ==
  /\ FreeSlot(p)
  /\ LET pr == [Idle EXCEPT !.op = "handleDriverResponse", !.o = o, !.d = d,
                            !.resp = response]
     IN procs' = [procs EXCEPT ![p] =
          IF o \notin DOMAIN orders
            THEN Thrown(pr, "h_rejected", "Order not found")
            ELSE [pr EXCEPT !.pc = "h_getdriver", !.doc = orders[o]]]
  /\ UNCHANGED <<orders, isAvailable, redis, now, timers, emitted>>

\* a driver answers an offer it has received
RespondFind(p, o, d, response) ==
  /\ Offered(o, d)
  /\ CallRespond(p, o, d, response)

RespondGetDriver(p) ==
  /\ At(p, "h_getdriver")
  /\ procs' = [procs EXCEPT ![p] =
       [@ EXCEPT !.rd = redisGet(redis, driverLockKey(procs[p].d)), !.pc = "h_getorder"]]
  /\ UNCHANGED <<orders, isAvailable, redis, now, timers, emitted>>

\* the lock verification with && for ||: one matching key is enough
RespondGetOrderEitherLock(p) ==
  /\ At(p, "h_getorder")
  /\ LET pr == procs[p]
         driverLock == pr.rd
         orderLock == redisGet(redis, orderLockKey(pr.o))
     IN procs' = [procs EXCEPT ![p] =
          IF driverLock # pr.o /\ orderLock # pr.d
            THEN Thrown(pr, "h_rejected", "Invalid or expired lock")
          ELSE [pr EXCEPT !.pc = IF pr.resp = "accept" THEN "h_save_acc" ELSE "h_save_dec"]]
  /\ UNCHANGED <<orders, isAvailable, redis, now, timers, emitted>>

RespondGetOrder(p) ==
  /\ At(p, "h_getorder")
  /\ LET pr == procs[p]
         driverLock == pr.rd
         orderLock == redisGet(redis, orderLockKey(pr.o))
     IN procs' = [procs EXCEPT ![p] =
          IF driverLock # pr.o \/ orderLock # pr.d
            THEN Thrown(pr, "h_rejected", "Invalid or expired lock")
          ELSE [pr EXCEPT !.pc = IF pr.resp = "accept" THEN "h_save_acc" ELSE "h_save_dec"]]
  /\ UNCHANGED <<orders, isAvailable, redis, now, timers, emitted>>

RespondSaveAccept(p) ==
  /\ At(p, "h_save_acc")
  /\ LET pr == procs[p]
         new == releaseLock(updateStatus(MarkAttempt(pr.doc, pr.d, pr.resp),
                                         "accepted", pr.d))
     IN IF SaveResult(orders[pr.o], pr.doc, new) = "ok"
          THEN /\ orders' = [orders EXCEPT ![pr.o] = SavedDoc(@, pr.doc, new)]
               /\ procs' = [procs EXCEPT ![p] =
                    [pr EXCEPT !.pc = "h_user", !.doc = LocalAfterSave(pr.doc, new)]]
          ELSE /\ procs' = [procs EXCEPT ![p] = Thrown(pr, "h_rejected", "VersionError")]
               /\ UNCHANGED orders
  /\ UNCHANGED <<isAvailable, redis, now, timers, emitted>>

\* User.findByIdAndUpdate(driverId, {'driverDetails.isAvailable': false})
\* Variant of the accept branch's User update that marks the driver available.
RespondUpdateUserAvailable(p) ==
  /\ At(p, "h_user")
  /\ isAvailable' = [isAvailable EXCEPT ![procs[p].d] = TRUE]
  /\ procs' = [procs EXCEPT ![p].pc = "h_deldriver"]
  /\ UNCHANGED <<orders, redis, now, timers, emitted>>

RespondUpdateUser(p) ==
  /\ At(p, "h_user")
  /\ isAvailable' = [isAvailable EXCEPT ![procs[p].d] = FALSE]
  /\ procs' = [procs EXCEPT ![p].pc = "h_deldriver"]
  /\ UNCHANGED <<orders, redis, now, timers, emitted>>

RespondSaveDecline(p) ==
  /\ At(p, "h_save_dec")
  /\ LET pr == procs[p]
         new == releaseLock(MarkAttempt(pr.doc, pr.d, pr.resp))
     IN IF SaveResult(orders[pr.o], pr.doc, new) = "ok"
          THEN /\ orders' = [orders EXCEPT ![pr.o] = SavedDoc(@, pr.doc, new)]
               /\ procs' = [procs EXCEPT ![p] =
                    [pr EXCEPT !.pc = "h_deldriver", !.doc = LocalAfterSave(pr.doc, new)]]
          ELSE /\ procs' = [procs EXCEPT ![p] = Thrown(pr, "h_rejected", "VersionError")]
               /\ UNCHANGED orders
  /\ UNCHANGED <<isAvailable, redis, now, timers, emitted>>

RespondDelDriver(p) ==
  /\ At(p, "h_deldriver")
  /\ redis' = redisDel(redis, driverLockKey(procs[p].d))
  /\ procs' = [procs EXCEPT ![p].pc = "h_delorder"]
  /\ UNCHANGED <<orders, isAvailable, now, timers, emitted>>

\* attempts.filter(attempt => attempt.response !== 'pending').length
ResolvedCount(doc) ==
  Cardinality({i \in 1..Len(doc.attempts) : doc.attempts[i].response # "pending"})

RespondDelOrder(p) ==
  /\ At(p, "h_delorder")
  /\ redis' = redisDel(redis, orderLockKey(procs[p].o))
  /\ LET pr == procs[p]
         currentAttempts == ResolvedCount(pr.doc)
     IN IF pr.resp = "accept"
          THEN /\ procs' = [procs EXCEPT ![p] = Idle]
               /\ UNCHANGED timers
          ELSE IF currentAttempts < maxRetries
            THEN /\ timers' = [timers EXCEPT ![pr.o] = @ + 1]
                 /\ procs' = [procs EXCEPT ![p] = Idle]
            ELSE /\ procs' = [procs EXCEPT ![p] =
                      [Idle EXCEPT !.op = "markOrderAsFailed", !.pc = "m_find", !.o = pr.o]]
                 /\ UNCHANGED timers
  /\ UNCHANGED <<orders, isAvailable, now, emitted>>

\* handleDriverResponse rethrows: the route answers 500, the socket handler
\* emits 'error'
RespondReject(p) ==
  /\ At(p, "h_rejected")
  /\ procs' = [procs EXCEPT ![p] = Idle]
  /\ UNCHANGED <<orders, isAvailable, redis, now, timers, emitted>>

(***************************************************************************)
(* markOrderAsFailed(orderId, reason)                                      *)
(***************************************************************************)
MarkFailedFind(p) ==
  /\ At(p, "m_find")
  /\ procs' = [procs EXCEPT ![p] = [@ EXCEPT !.pc = "m_save", !.doc = orders[procs[p].o]]]
  /\ UNCHANGED <<orders, isAvailable, redis, now, timers, emitted>>

MarkFailedSave(p) ==
  /\ At(p, "m_save")
  /\ LET pr == procs[p]
         new == releaseLock(updateStatus(pr.doc, "failed", Null))
     IN IF SaveResult(orders[pr.o], pr.doc, new) = "ok"
          THEN /\ orders' = [orders EXCEPT ![pr.o] = SavedDoc(@, pr.doc, new)]
               /\ emitted' = emitted \cup
                    {[event |-> "order_failed", o |-> pr.o, d |-> Null]}
          ELSE UNCHANGED <<orders, emitted>>
  /\ procs' = [procs EXCEPT ![p] = Idle]
  /\ UNCHANGED <<isAvailable, redis, now, timers>>

(***************************************************************************)
(* cleanupExpiredLocks, run by the periodic sweep                          *)
(***************************************************************************)
RECURSIVE Batch(_)
Batch(S) ==
  IF S = {} THEN <<>>
  ELSE LET o == CHOOSE x \in S : TRUE
       IN <<[o |-> o, doc |-> orders[o]]>> \o Batch(S \ {o})

\* Order.find({isLocked: true, lockExpiration: {$lt: new Date()}})
ExpiredOrders ==
  {o \in DOMAIN orders :
     /\ orders[o].isLocked
     /\ orders[o].lockExpiration \notin {NoDate, UndefinedDate}
     /\ orders[o].lockExpiration < now}

MarkTimeout(doc) ==
  LET n == Len(doc.attempts)
  IN IF n > 0 /\ doc.attempts[n].response = "pending"
       THEN [doc EXCEPT !.attempts[n].response = "timeout"]
       ELSE doc

CleanupFind(p) ==
  /\ FreeSlot(p)
  /\ LET expiredOrders == Batch(ExpiredOrders)
     IN procs' = [procs EXCEPT ![p] =
          IF expiredOrders = <<>> THEN Idle
          ELSE [Idle EXCEPT !.op = "cleanupExpiredLocks", !.pc = "c_save",
                            !.batch = expiredOrders]]
  /\ UNCHANGED <<orders, isAvailable, redis, now, timers, emitted>>

CleanupSave(p) ==
  /\ At(p, "c_save")
  /\ LET pr == procs[p]
         order == Head(pr.batch)
         new == MarkTimeout(releaseLock(order.doc))
     IN IF SaveResult(orders[order.o], order.doc, new) = "ok"
          THEN /\ orders' = [orders EXCEPT ![order.o] = SavedDoc(@, order.doc, new)]
               /\ procs' = [procs EXCEPT ![p] =
                    [pr EXCEPT !.pc = "c_deldriver", !.o = order.o,
                               !.doc = LocalAfterSave(order.doc, new)]]
          ELSE /\ procs' = [procs EXCEPT ![p] = Idle]
               /\ UNCHANGED orders
  /\ UNCHANGED <<isAvailable, redis, now, timers, emitted>>

\* del(`driver_lock:${order.lockedBy}`), after order.releaseLock()
CleanupDelDriver(p) ==
  /\ At(p, "c_deldriver")
  /\ redis' = redisDel(redis, driverLockKey(procs[p].doc.lockedBy))
  /\ procs' = [procs EXCEPT ![p].pc = "c_delorder"]
  /\ UNCHANGED <<orders, isAvailable, now, timers, emitted>>

CleanupDelOrder(p) ==
  /\ At(p, "c_delorder")
  /\ redis' = redisDel(redis, orderLockKey(procs[p].o))
  /\ procs' = [procs EXCEPT ![p] =
       IF Len(@.batch) > 1
         THEN [@ EXCEPT !.pc = "c_save", !.batch = Tail(procs[p].batch), !.o = Null,
                        !.doc = NoDoc]
         ELSE Idle]
  /\ UNCHANGED <<orders, isAvailable, now, timers, emitted>>

(***************************************************************************)
(* PUT /drivers/orders/:orderId/request (manual assignment)                *)
(***************************************************************************)
RequestFind(p, o, d) ==
  /\ FreeSlot(p)
  /\ o \in DOMAIN orders
  /\ orders[o].driver = Null /\ orders[o].status = "pending"
  /\ procs' = [procs EXCEPT ![p] =
       [Idle EXCEPT !.op = "request", !.pc = "r_save", !.o = o, !.d = d,
                    !.doc = orders[o]]]
  /\ UNCHANGED <<orders, isAvailable, redis, now, timers, emitted>>

RequestSave(p) ==
  /\ At(p, "r_save")
  /\ LET pr == procs[p]
         new == [pr.doc EXCEPT !.driver = pr.d, !.status = "accepted"]
     IN /\ SaveResult(orders[pr.o], pr.doc, new) = "ok"
        /\ orders' = [orders EXCEPT ![pr.o] = SavedDoc(@, pr.doc, new)]
        /\ procs' = [procs EXCEPT ![p] =
             [pr EXCEPT !.pc = "r_user", !.doc = LocalAfterSave(pr.doc, new)]]
  /\ UNCHANGED <<isAvailable, redis, now, timers, emitted>>

RequestUpdateUser(p) ==
  /\ At(p, "r_user")
  /\ isAvailable' = [isAvailable EXCEPT ![procs[p].d] = FALSE]
  /\ procs' = [procs EXCEPT ![p] = Idle]
  /\ UNCHANGED <<orders, redis, now, timers, emitted>>

(***************************************************************************)
(* A store call (Redis, MongoDB) that rejects: the store is unreachable    *)
(***************************************************************************)
CleanupLabels == {"c_save", "c_deldriver", "c_delorder"}

\* the awaited save or del of the sweep rejects: the catch around the loop logs
CleanupFails(p) ==
  /\ procs[p].pc \in CleanupLabels
  /\ procs' = [procs EXCEPT ![p] = Idle]
  /\ UNCHANGED <<orders, isAvailable, redis, now, timers, emitted>>

OfferLabels ==
  {"o_getdriver", "o_getorder", "o_setdriver", "o_setorder", "o_savelock",
   "o_saveattempt"}

\* an awaited get, setEx or save of offerOrderToDriver rejects: its catch returns
\* {success: false} and the loop of assignOrder goes to the next candidate
OfferFails(p) ==
  /\ procs[p].pc \in OfferLabels
  /\ procs' = [procs EXCEPT ![p] = NextCandidate(@)]
  /\ UNCHANGED <<orders, isAvailable, redis, now, timers, emitted>>

(***************************************************************************)
(* PUT /orders/:orderId/cancel (customer)                                  *)
(***************************************************************************)
nonCancellableStatuses == {"delivered", "cancelled"}
inProgressStatuses == {"picked_up", "in_transit"}

\* Order.findOne and the status checks; a refused request answers 400
CancelFind(p, o) ==
  /\ FreeSlot(p)
  /\ o \in DOMAIN orders
  /\ orders[o].status \notin nonCancellableStatuses \cup inProgressStatuses
  /\ procs' = [procs EXCEPT ![p] =
       [Idle EXCEPT !.op = "cancel", !.pc = "k_save", !.o = o, !.doc = orders[o]]]
  /\ UNCHANGED <<orders, isAvailable, redis, now, timers, emitted>>

\* order.updateStatus('cancelled'); await order.save(); a failed save answers 500
CancelSave(p) ==
  /\ At(p, "k_save")
  /\ LET pr == procs[p]
         new == updateStatus(pr.doc, "cancelled", Null)
     IN IF SaveResult(orders[pr.o], pr.doc, new) = "ok"
          THEN /\ orders' = [orders EXCEPT ![pr.o] = SavedDoc(@, pr.doc, new)]
               /\ procs' = [procs EXCEPT ![p] =
                    IF pr.doc.driver # Null
                      THEN [pr EXCEPT !.pc = "k_user", !.d = pr.doc.driver,
                                      !.doc = LocalAfterSave(pr.doc, new)]
                      ELSE Idle]
          ELSE /\ procs' = [procs EXCEPT ![p] = Idle]
               /\ UNCHANGED orders
  /\ UNCHANGED <<isAvailable, redis, now, timers, emitted>>

\* User.findByIdAndUpdate(order.driver._id, {'driverDetails.isAvailable': true})
CancelUpdateUser(p) ==
  /\ At(p, "k_user")
  /\ isAvailable' = [isAvailable EXCEPT ![procs[p].d] = TRUE]
  /\ procs' = [procs EXCEPT ![p] = Idle]
  /\ UNCHANGED <<orders, redis, now, timers, emitted>>

(***************************************************************************)
(* The program                                                             *)
(***************************************************************************)
Responses == {"accept", "decline"}

AssignStep(p) ==
  \/ AssignFind(p) \/ AssignGetLock(p) \/ AssignSetLock(p) \/ AssignSearch(p)
  \/ AssignDelOk(p) \/ AssignDelThrow(p) \/ AssignDelCatch(p) \/ AssignReject(p)
  \/ OfferGetDriver(p) \/ OfferGetOrder(p) \/ OfferSetDriver(p) \/ OfferSetOrder(p)
  \/ OfferSaveLock(p) \/ OfferSaveAttempt(p)

DeclineStep(p) ==
  \/ RespondGetDriver(p) \/ RespondGetOrder(p) \/ RespondSaveDecline(p)
  \/ RespondDelDriver(p) \/ RespondDelOrder(p) \/ RespondReject(p)
  \/ MarkFailedFind(p) \/ MarkFailedSave(p)

RespondStep(p) ==
  \/ DeclineStep(p)
  \/ RespondSaveAccept(p) \/ RespondUpdateUser(p)

\* orders of `placed` are created and offered to drivers
Dispatch(placed) ==
  \/ \E p \in Procs : AssignStep(p)
  \/ \E p \in Procs, o \in placed : CreateOrder(p, o)

\* the drivers answer their offers; a decline schedules the retry
Answers(placed, cap, responses) ==
  \/ \E p \in Procs : RespondStep(p)
  \/ \E p \in Procs, o \in placed : RetryFire(p, o, cap)
  \/ \E p \in Procs, o \in placed, d \in Drivers, r \in responses : RespondFind(p, o, d, r)

Sweep ==
  \/ \E p \in Procs : CleanupFind(p) \/ CleanupSave(p) \/ CleanupDelDriver(p)
                        \/ CleanupDelOrder(p)
  \/ Tick

ManualRequest(placed) ==
  \/ \E p \in Procs, o \in placed, d \in Drivers : RequestFind(p, o, d)
  \/ \E p \in Procs : RequestSave(p) \/ RequestUpdateUser(p)

\* one order, two candidate drivers
Init == InitWith({"d1", "d2"})
Next == Dispatch({"o1"}) \/ Answers({"o1"}, MaxAttempts, Responses) \/ Sweep
Spec == Init /\ [][Next]_vars

\* two orders placed at the same time, one driver in reach
InitOrders == InitWith({"d1"})
NextOrders == Dispatch(Orders)
SpecOrders == InitOrders /\ [][NextOrders]_vars

\* one order, the engine and the manual-request route
NextRequest == Dispatch({"o1"}) \/ Answers({"o1"}, MaxAttempts, Responses) \/ ManualRequest({"o1"})
SpecRequest == Init /\ [][NextRequest]_vars

\* one order, one driver who declines again and again (and may send a decline
\* twice while fewer than MaxTimers retries are pending)
MaxAttemptsRetry == 11
MaxTimers == 1
InitRetry == InitWith({"d1"})
NextRetry ==
  \/ Dispatch({"o1"})
  \/ \E p \in Procs : DeclineStep(p)
  \/ \E p \in Procs : RetryFire(p, "o1", MaxAttemptsRetry)
  \/ \E p \in Procs : timers["o1"] < MaxTimers /\ RespondFind(p, "o1", "d1", "decline")
SpecRetry == InitRetry /\ [][NextRetry]_vars

\* one order, two candidate drivers, the sweep; the lock timeout passes only while
\* no request is in flight (a request takes milliseconds, the timeout minutes)
QuietTick == (\A p \in Procs : procs[p].op = "idle") /\ Tick
SweepStep(p) ==
  \/ CleanupFind(p) \/ CleanupSave(p) \/ CleanupDelDriver(p) \/ CleanupDelOrder(p)
NextSweep ==
  \/ Dispatch({"o1"})
  \/ Answers({"o1"}, MaxAttempts, Responses)
  \/ \E p \in Procs : SweepStep(p)
  \/ QuietTick
SpecSweep == Init /\ [][NextSweep]_vars

\* the service called with any arguments: order o1 is placed, "o2" is the id of no
\* order; any driver may answer for any order id; all drivers or none are available
InitCalls == \E online \in {{}, Drivers} : InitWith(online)
HandleStep(p) ==
  \/ RespondGetDriver(p) \/ RespondGetOrder(p) \/ RespondSaveAccept(p)
  \/ RespondUpdateUser(p) \/ RespondSaveDecline(p) \/ RespondDelDriver(p)
  \/ RespondDelOrder(p) \/ RespondReject(p)
NextCalls ==
  \/ Dispatch({"o1"})
  \/ \E p \in Procs : HandleStep(p)
  \/ \E p \in Procs, o \in Orders : CallAssign(p, o, MaxAttempts)
  \/ \E p \in Procs, o \in Orders, d \in Drivers, r \in Responses : CallRespond(p, o, d, r)
SpecCalls == InitCalls /\ [][NextCalls]_vars

\* one order that its customer may cancel at any moment, two candidate drivers,
\* the sweep
Cancel(placed) ==
  \/ \E p \in Procs, o \in placed : CancelFind(p, o)
  \/ \E p \in Procs : CancelSave(p) \/ CancelUpdateUser(p)
NextCancel ==
  \/ Dispatch({"o1"})
  \/ Answers({"o1"}, MaxAttempts, Responses)
  \/ \E p \in Procs : SweepStep(p)
  \/ QuietTick
  \/ Cancel({"o1"})
SpecCancel == Init /\ [][NextCancel]_vars

\* two orders under offer to two drivers, the sweep after the lock timeout, and a
\* store that may reject a call of the sweep
NextBatch ==
  \/ Dispatch(Orders)
  \/ \E p \in Procs : SweepStep(p)
  \/ \E p \in Procs : CleanupFails(p)
  \/ QuietTick
InitBatch == \E online \in {{"d1"}, Drivers} : InitWith(online)
SpecBatch == InitBatch /\ [][NextBatch]_vars

\* one order assigned by one or more calls of assignOrder, two candidate drivers,
\* and a store that may reject a call of offerOrderToDriver
NextOffer ==
  \/ Dispatch({"o1"})
  \/ \E p \in Procs : CallAssign(p, "o1", MaxAttempts)
  \/ \E p \in Procs : OfferFails(p)
SpecOffer == Init /\ [][NextOffer]_vars

\* one order placed while the drivers of `busy` are under offer for other orders
\* (their driver_lock key is set), in a fleet of six drivers in reach
InitFleet ==
  \E online \in SUBSET Fleet, busy \in SUBSET Fleet :
    /\ orders = [o \in {} |-> NewOrder]
    /\ isAvailable = [d \in Fleet |-> d \in online]
    /\ redis = [k \in KeysOf(Fleet) |->
                 IF \E d \in busy : k = driverLockKey(d)
                   THEN [val |-> "o2", exp |-> lockTimeout]
                   ELSE NoEntry]
    /\ now = 0
    /\ procs = [p \in Procs |-> Idle]
    /\ timers = [o \in Orders |-> 0]
    /\ emitted = {}
NextFleet == Dispatch({"o1"})
SpecFleet == InitFleet /\ [][NextFleet]_vars

(***************************************************************************)
(* Properties                                                              *)
(***************************************************************************)
PendingCount(doc) ==
  Cardinality({i \in 1..Len(doc.attempts) : doc.attempts[i].response = "pending"})

\* C1: in every reachable state each order has at most one assignmentAttempts
\* entry whose response is 'pending'
C1_AtMostOnePendingAttempt ==
  \A o \in DOMAIN orders : PendingCount(orders[o]) <= 1

\* C2: in every reachable state, for each driver d at most one order has
\* isLocked = true with lockedBy = d
C2_AtMostOneLockedOrderPerDriver ==
  \A d \in Drivers :
    Cardinality({o \in DOMAIN orders : orders[o].isLocked /\ orders[o].lockedBy = d}) <= 1

\* C3: in every reachable state driver_lock:{d} holds o if and only if
\* order_lock:{o} holds d
C3_LockPairing ==
  \A o \in Orders, d \in Drivers :
    redisGet(redis, driverLockKey(d)) = o <=> redisGet(redis, orderLockKey(o)) = d

\* the lock pairing read only while no offer, response or sweep stands between its
\* two key writes
LockPairingBetweenWrites ==
  (\A p \in Procs : procs[p].pc \notin {"o_setorder", "h_delorder", "c_delorder"})
    => C3_LockPairing

\* the labels of assignOrder after the already-in-progress check
PastInProgressCheck ==
  {"a_setlock", "a_search", "o_getdriver", "o_getorder", "o_setdriver", "o_setorder",
   "o_savelock", "o_saveattempt", "a_del_ok", "a_del_nodrivers", "a_del_none",
   "a_del_catch"}

\* C4: of two assignOrder calls running concurrently for the same order, only one
\* is past the already-in-progress check (in the driver search and offer loop)
C4_OneAssignPastCheck ==
  \A p, q \in Procs :
    (/\ p # q
     /\ procs[p].op = "assignOrder" /\ procs[q].op = "assignOrder"
     /\ procs[p].o = procs[q].o
     /\ procs[p].pc \in PastInProgressCheck)
    => procs[q].pc \notin PastInProgressCheck

\* C5: once an order is 'accepted' with assigned driver D, no later step sets its
\* assigned driver to another driver
C5_NoDoubleAssignment ==
  [][\A o \in DOMAIN orders :
       (orders[o].status = "accepted" /\ orders[o].driver # Null)
       => orders'[o].driver = orders[o].driver]_vars

\* C6: in every reachable state, an order whose status is 'accepted' has its driver
\* set and an attempt with response 'accepted' of that driver
C6_AcceptedMatchesAttempt ==
  \A o \in DOMAIN orders :
    orders[o].status = "accepted" =>
      /\ orders[o].driver # Null
      /\ \E i \in 1..Len(orders[o].attempts) :
           /\ orders[o].attempts[i].response = "accepted"
           /\ orders[o].attempts[i].driverId = orders[o].driver

\* C7: the attempt history is monotonic: no entry is lost, no entry changes its
\* driverId, and a response changes only from 'pending', to 'accepted', 'declined'
\* or 'timeout'
C7_MonotonicAttempts ==
  [][\A o \in DOMAIN orders :
       /\ Len(orders'[o].attempts) >= Len(orders[o].attempts)
       /\ \A i \in 1..Len(orders[o].attempts) :
            /\ orders'[o].attempts[i].driverId = orders[o].attempts[i].driverId
            /\ orders'[o].attempts[i].response # orders[o].attempts[i].response
                 => /\ orders[o].attempts[i].response = "pending"
                    /\ orders'[o].attempts[i].response \in {"accepted", "declined", "timeout"}
    ]_vars

\* C8: for every order that has not reached 'failed', the number of attempts with
\* a response other than 'pending' never exceeds maxRetries
C8_RetryBound ==
  \A o \in DOMAIN orders :
    orders[o].status # "failed" => ResolvedCount(orders[o]) <= maxRetries

\* no handleDriverResponse / markOrderAsFailed of order o is in flight
Settled(o) ==
  \A p \in Procs :
    procs[p].o = o => procs[p].op \notin {"handleDriverResponse", "markOrderAsFailed"}

AllDeclined(doc) ==
  \A i \in 1..Len(doc.attempts) : doc.attempts[i].response = "declined"

\* C9: when every offer of an order was declined and the declines have brought the
\* resolved-attempt count to maxRetries, the order is 'failed', the customer has
\* been sent 'order_failed', and no further offer is placed
C9_FailedAfterMaxDeclines ==
  \A o \in DOMAIN orders :
    /\ (AllDeclined(orders[o]) /\ ResolvedCount(orders[o]) = maxRetries /\ Settled(o))
         => /\ orders[o].status = "failed"
            /\ [event |-> "order_failed", o |-> o, d |-> Null] \in emitted
    /\ Len(orders[o].attempts) <= maxRetries

\* C10: with d1 nearer than d2, the first offer goes to d1; after d1 declined it,
\* the next offer goes to d2; when d2 has accepted, the order is 'accepted' with
\* driver d2 and d2 is no longer available
C10_ScenarioA ==
  \A o \in DOMAIN orders :
    LET a == orders[o].attempts
    IN /\ Len(a) >= 1 => a[1].driverId = "d1"
       /\ (Len(a) >= 2 /\ a[1].response = "declined") => a[2].driverId = "d2"
       /\ (/\ Len(a) = 2 /\ a[1].response = "declined" /\ a[2].response = "accepted"
           /\ \A p \in Procs : procs[p].op = "idle")
            => /\ orders[o].status = "accepted"
               /\ orders[o].driver = "d2"
               /\ ~isAvailable["d2"]

\* a call of operation op for order o is in flight
InFlight(o, ops) ==
  \E p \in Procs : procs[p].o = o /\ procs[p].op \in ops

LastResponse(doc) ==
  IF Len(doc.attempts) = 0 THEN Null ELSE doc.attempts[Len(doc.attempts)].response

\* C11: once the sweep has processed an order whose offer timed out (its last
\* attempt is 'timeout' and cleanupExpiredLocks is done with it), the order has
\* re-entered assignment: assignOrder is scheduled or running for it, or the order
\* is being marked or is 'failed'
C11_TimeoutReentersAssignment ==
  \A o \in DOMAIN orders :
    (LastResponse(orders[o]) = "timeout" /\ ~InFlight(o, {"cleanupExpiredLocks"}))
      => \/ timers[o] > 0
         \/ InFlight(o, {"assignOrder", "markOrderAsFailed"})
         \/ orders[o].status = "failed"

\* C12: the step in which cleanupExpiredLocks saves an expired order leaves the
\* order with isLocked = false, lockedBy and lockExpiration cleared, and no
\* attempt with response 'pending'
C12_SweepReleasesAndTimesOut ==
  [][\A p \in Procs :
       (At(p, "c_save") /\ procs'[p].pc = "c_deldriver")
         => LET order == orders'[procs'[p].o]
            IN /\ ~order.isLocked
               /\ order.lockedBy = Null
               /\ order.lockExpiration = NoDate
               /\ PendingCount(order) = 0
    ]_vars

\* C13: cleanupExpiredLocks, processing an expired order o that it found locked by
\* driver d, deletes both keys of the offer: after its first del driver_lock:{d}
\* does not hold o, and after its second del order_lock:{o} is absent
C13_SweepDeletesBothKeys ==
  [][\A p \in Procs :
       /\ (At(p, "c_deldriver") /\ procs'[p].pc = "c_delorder")
            => redisGet(redis', driverLockKey(Head(procs[p].batch).doc.lockedBy))
                 # procs[p].o
       /\ (At(p, "c_delorder") /\ procs'[p] # procs[p])
            => redisGet(redis', orderLockKey(procs[p].o)) = Null
    ]_vars

\* the keys whose value a step changed
Written == {k \in Keys : redis'[k] # redis[k]}

\* process p takes a step
Steps(p) == procs'[p] # procs[p]

NoDrivers == "No available drivers found nearby"

\* C14: when the driver search returns no drivers, assignOrder fails with 'No
\* available drivers found nearby'; from the search to its rejection the call
\* writes no order and no driver, sets no key, and leaves no order_assignment key
C14_NoDriversLeavesOrderPending ==
  [][\A p \in Procs :
       /\ (At(p, "a_search") /\ Steps(p) /\ findNearbyDrivers(isAvailable) = <<>>)
            => procs'[p].err = NoDrivers
       /\ (procs[p].op = "assignOrder" /\ Steps(p)
             /\ (procs'[p].err = NoDrivers \/ procs[p].err = NoDrivers))
            => /\ orders' = orders /\ isAvailable' = isAvailable /\ timers' = timers
               /\ Written \subseteq {assignmentLockKey(procs[p].o)}
               /\ procs'[p].pc = "a_rejected"
                    => redisGet(redis', assignmentLockKey(procs[p].o)) = Null
               /\ procs'[p].op = "assignOrder"
                    => procs'[p].pc \in {"a_del_nodrivers", "a_del_catch", "a_rejected"}
    ]_vars

\* an assignOrder call has been rejected for want of drivers; the order is pending,
\* unlocked, without attempts, and no key is set
C14_Witness ==
  \E p \in Procs :
    /\ procs[p].op = "assignOrder" /\ At(p, "a_rejected") /\ procs[p].err = NoDrivers
    /\ orders[procs[p].o].status = "pending"
    /\ orders[procs[p].o].attempts = <<>>
    /\ ~orders[procs[p].o].isLocked
    /\ \A k \in Keys : redisGet(redis, k) = Null

NotFound == "Order not found"
NotPending == "Order is not in pending status"

\* C15: assignOrder fails with 'Order not found' when no order has the id and with
\* 'Order is not in pending status' when the order is not pending; the steps of
\* such a call write no order, no driver, no key and no timer
C15_AssignRejectsMissingOrNotPending ==
  [][\A p \in Procs :
       /\ (At(p, "a_find") /\ Steps(p) /\ procs[p].o \notin DOMAIN orders)
            => (procs'[p].pc = "a_rejected" /\ procs'[p].err = NotFound)
       /\ (At(p, "a_find") /\ Steps(p) /\ procs[p].o \in DOMAIN orders
             /\ orders[procs[p].o].status # "pending")
            => (procs'[p].pc = "a_rejected" /\ procs'[p].err = NotPending)
       /\ (procs[p].op = "assignOrder" /\ Steps(p)
             /\ (procs'[p].err \in {NotFound, NotPending}
                   \/ procs[p].err \in {NotFound, NotPending}))
            => UNCHANGED <<orders, isAvailable, redis, timers, emitted>>
    ]_vars

\* one assignOrder call rejected for an id without order, another rejected for an
\* accepted order
C15_Witness ==
  \E p, q \in Procs :
    /\ At(p, "a_rejected") /\ procs[p].err = NotFound /\ procs[p].o \notin DOMAIN orders
    /\ At(q, "a_rejected") /\ procs[q].err = NotPending
    /\ orders[procs[q].o].status = "accepted"

InProgress == "Order assignment already in progress"

\* an offer of order o is outstanding: order_lock:{o} is present and the order has
\* a pending attempt
OfferOutstanding(o) ==
  /\ o \in DOMAIN orders
  /\ redisGet(redis, orderLockKey(o)) # Null
  /\ PendingCount(orders[o]) > 0

\* C16: an assignOrder call that reaches its already-in-progress check while an
\* offer of the order is outstanding fails there with 'Order assignment already in
\* progress'
C16_OutstandingOfferRejectsAssign ==
  [][\A p \in Procs :
       (At(p, "a_getlock") /\ Steps(p) /\ OfferOutstanding(procs[p].o))
         => (procs'[p].pc = "a_rejected" /\ procs'[p].err = InProgress)
    ]_vars

\* no attempt is appended to an order while an offer of it is outstanding
NoOfferWhileOutstanding ==
  [][\A o \in DOMAIN orders :
       OfferOutstanding(o) => Len(orders'[o].attempts) = Len(orders[o].attempts)
    ]_vars

InvalidLock == "Invalid or expired lock"

\* C17: handleDriverResponse(o, d, r) fails with 'Invalid or expired lock' whenever
\* the driver_lock:{d} it read is not o or order_lock:{o} is not d; up to that
\* failure and after it the call changes no order, no driver, no key and no timer
C17_InvalidLockRejectsResponse ==
  [][\A p \in Procs :
       /\ (At(p, "h_getorder") /\ Steps(p)
             /\ (procs[p].rd # procs[p].o
                   \/ redisGet(redis, orderLockKey(procs[p].o)) # procs[p].d))
            => (procs'[p].pc = "h_rejected" /\ procs'[p].err = InvalidLock)
       /\ (procs[p].op = "handleDriverResponse" /\ Steps(p)
             /\ (procs[p].pc \in {"h_getdriver", "h_getorder"}
                   \/ procs[p].err = InvalidLock))
            => UNCHANGED <<orders, isAvailable, redis, timers, emitted>>
    ]_vars

\* driver d2 answered an order that is under offer to d1 and was rejected
C17_Witness ==
  \E p \in Procs :
    /\ At(p, "h_rejected") /\ procs[p].err = InvalidLock
    /\ procs[p].o \in DOMAIN orders
    /\ redisGet(redis, orderLockKey(procs[p].o)) \in Drivers \ {procs[p].d}
    /\ PendingCount(orders[procs[p].o]) = 1
    /\ orders[procs[p].o].status = "pending"

\* the call of slot p passed the lock verification with no pending attempt of its driver
NoMatchingAttempt(p) ==
  /\ procs[p].op = "handleDriverResponse"
  /\ procs[p].pc \in {"h_save_acc", "h_save_dec"}
  /\ AttemptIndex(procs[p].doc, procs[p].d) = 0

\* C18: with valid lock keys for (o, d) but no 'pending' assignmentAttempts entry of d,
\* handleDriverResponse fails with a no-matching-attempt error and changes neither
\* the order's status nor its assigned driver
C18_NoMatchingAttemptRejects ==
  [][\A p \in Procs :
       /\ (At(p, "h_getorder") /\ Steps(p)
             /\ procs[p].rd = procs[p].o
             /\ redisGet(redis, orderLockKey(procs[p].o)) = procs[p].d
             /\ AttemptIndex(procs[p].doc, procs[p].d) = 0)
            => procs'[p].pc = "h_rejected"
       /\ (NoMatchingAttempt(p) /\ Steps(p))
            => /\ orders'[procs[p].o].status = orders[procs[p].o].status
               /\ orders'[procs[p].o].driver = orders[procs[p].o].driver
    ]_vars

\* the weaker half alone: such a call leaves status and assigned driver as they were
C18_NoMatchingAttemptKeepsOrder ==
  [][\A p \in Procs :
       (NoMatchingAttempt(p) /\ Steps(p))
         => /\ orders'[procs[p].o].status = orders[procs[p].o].status
            /\ orders'[procs[p].o].driver = orders[procs[p].o].driver
    ]_vars

Accepting(p) == procs[p].op = "handleDriverResponse" /\ procs[p].resp = "accept"

\* C19: a successful handleDriverResponse(o, d, 'accept') that found the matching
\* attempt stores status 'accepted', driver d, cleared lock fields (isLocked false,
\* lockedBy and lockExpiration null) and that attempt as 'accepted' on order o, sets
\* d's isAvailable to false and deletes driver_lock:{d} and order_lock:{o}
C19_AcceptPostcondition ==
  [][\A p \in Procs :
       LET pr == procs[p]
           i == AttemptIndex(pr.doc, pr.d)
       IN (Accepting(p) /\ Steps(p)) =>
            /\ (pr.pc = "h_save_acc" /\ procs'[p].pc = "h_user" /\ i # 0)
                 => /\ orders'[pr.o].status = "accepted"
                    /\ orders'[pr.o].driver = pr.d
                    /\ ~orders'[pr.o].isLocked
                    /\ orders'[pr.o].lockedBy = Null
                    /\ orders'[pr.o].lockExpiration = NoDate
                    /\ orders'[pr.o].attempts[i] = [driverId |-> pr.d, response |-> "accepted"]
            /\ pr.pc = "h_user" => ~isAvailable'[pr.d]
            /\ pr.pc = "h_deldriver" => redisGet(redis', driverLockKey(pr.d)) = Null
            /\ pr.pc = "h_delorder"
                 => /\ redisGet(redis', orderLockKey(pr.o)) = Null
                    /\ procs'[p] = Idle
            /\ pr.pc \in {"h_user", "h_deldriver", "h_delorder"}
                 => procs'[p].pc # "h_rejected"
    ]_vars

Declining(p) == procs[p].op = "handleDriverResponse" /\ procs[p].resp = "decline"

\* C20: a successful handleDriverResponse(o, d, 'decline') that found the matching
\* attempt stores that attempt as 'declined' and cleared lock fields on order o,
\* deletes driver_lock:{d} and order_lock:{o}, leaves every isAvailable as it was and
\* triggers exactly one follow-up: a delayed assignOrder(o) when fewer than 10
\* attempts are resolved, otherwise markOrderAsFailed(o)
C20_DeclinePostcondition ==
  [][\A p \in Procs :
       LET pr == procs[p]
           i == AttemptIndex(pr.doc, pr.d)
       IN (Declining(p) /\ Steps(p)) =>
            /\ (pr.pc = "h_save_dec" /\ procs'[p].pc = "h_deldriver" /\ i # 0)
                 => /\ orders'[pr.o].attempts[i] = [driverId |-> pr.d, response |-> "declined"]
                    /\ ~orders'[pr.o].isLocked
                    /\ orders'[pr.o].lockedBy = Null
                    /\ orders'[pr.o].lockExpiration = NoDate
            /\ pr.pc = "h_deldriver" => redisGet(redis', driverLockKey(pr.d)) = Null
            /\ pr.pc = "h_delorder"
                 => /\ redisGet(redis', orderLockKey(pr.o)) = Null
                    /\ IF ResolvedCount(pr.doc) < maxRetries
                         THEN /\ timers' = [timers EXCEPT ![pr.o] = @ + 1]
                              /\ procs'[p] = Idle
                         ELSE /\ timers' = timers
                              /\ procs'[p].op = "markOrderAsFailed"
                              /\ procs'[p].o = pr.o
            /\ pr.pc # "h_delorder" => timers' = timers
            /\ isAvailable' = isAvailable
    ]_vars

\* the order the step of slot p works on
OrderOf(p) ==
  IF procs[p].pc = "c_save" THEN Head(procs[p].batch).o ELSE procs[p].o

\* slot p runs a decline, the sweep, markOrderAsFailed, or a scheduled retry that is
\* about to read the order or has been rejected
FollowUp(p) ==
  \/ Declining(p)
  \/ procs[p].op \in {"cleanupExpiredLocks", "markOrderAsFailed"}
  \/ procs[p].op = "assignOrder" /\ procs[p].retry /\ procs[p].pc \in {"a_find", "a_rejected"}

SweepOfCancelledOrder ==
  \E p \in Procs :
    /\ procs[p].op = "cleanupExpiredLocks" /\ At(p, "c_deldriver")
    /\ procs[p].doc.status = "cancelled"
    /\ orders[procs[p].o].status = "cancelled"
    /\ ~orders[procs[p].o].isLocked

\* the retry scheduled by a decline has found the order cancelled
RetryOfCancelledOrder ==
  \E p \in Procs :
    /\ procs[p].op = "markOrderAsFailed" /\ At(p, "m_save")
    /\ procs[p].doc.status = "cancelled"

EngineOps == {"assignOrder", "handleDriverResponse", "markOrderAsFailed", "cleanupExpiredLocks"}
TerminalStatuses == {"accepted", "failed", "cancelled"}

\* C22: 'accepted', 'failed' and 'cancelled' are terminal for the engine: no step of
\* assignOrder, handleDriverResponse, a scheduled retry, markOrderAsFailed or
\* cleanupExpiredLocks changes the status or the assigned driver of an order whose
\* status is one of them
C22_TerminalStatuses ==
  [][\A p \in Procs :
       (Steps(p) /\ procs[p].op \in EngineOps) =>
          \A o \in DOMAIN orders :
            orders[o].status \in TerminalStatuses =>
              /\ orders'[o].status = orders[o].status
              /\ orders'[o].driver = orders[o].driver
    ]_vars

\* C23: in a sweep over several expired orders a failure while one order is processed
\* does not abort the batch: the sweep goes on with the orders that are left
C23_SweepContinuesAfterFailure ==
  [][\A p \in Procs :
       (procs[p].op = "cleanupExpiredLocks" /\ Steps(p) /\ Len(procs[p].batch) > 1) =>
          /\ procs'[p].op = "cleanupExpiredLocks"
          /\ procs'[p].batch \in {procs[p].batch, Tail(procs[p].batch)}
    ]_vars

\* the sweep has ended and an order it had found is still locked past its expiry
\* with its attempt pending
SweepLeftOrderBehind ==
  /\ \A p \in Procs : procs[p].op = "idle"
  /\ \E o \in ExpiredOrders : PendingCount(orders[o]) = 1
  /\ \E o \in DOMAIN orders : ~orders[o].isLocked /\ orders[o].lockExpiration = NoDate

\* a lock key of the pair (o, d) is set although order o carries no pending attempt
\* of driver d
PartialLock(o, d) ==
  /\ \/ redisGet(redis, driverLockKey(d)) = o
     \/ redisGet(redis, orderLockKey(o)) = d
  /\ AttemptIndex(orders[o], d) = 0

\* C24: a store failure during an offer leaves no partial lock state: once assignOrder
\* has returned, neither driver_lock:{d} nor order_lock:{o} is set for a candidate
\* whose offer failed
C24_NoPartialLockState ==
  (\A p \in Procs : procs[p].op = "idle")
    => \A o \in DOMAIN orders, d \in Drivers : ~PartialLock(o, d)

\* the setEx awaited by slot p has rejected: the step does not go on to the next await
\* of the offer
SetExRejected(p) ==
  /\ Steps(p)
  /\ \/ procs[p].pc = "o_setdriver" /\ procs'[p].pc # "o_setorder"
     \/ procs[p].pc = "o_setorder" /\ procs'[p].pc # "o_savelock"

\* C25: a failure of the lock store during an offer is surfaced by assignOrder to its
\* caller: the call does not move on to the next candidate and does not report
\* 'No driver accepted the order'
C25_StoreFailureIsSurfaced ==
  [][\A p \in Procs :
       SetExRejected(p) =>
         /\ procs'[p].pc # "o_getdriver"
         /\ procs'[p].err \notin {Null, "No driver accepted the order"}
    ]_vars

InReach(d) == isAvailable[d] /\ distanceToPickup[d] * 100 <= radiusKm * 1000

\* cands holds at most 5 drivers, nearest first, and no driver in reach that is
\* nearer than one of them is left out
FiveNearest(cands) ==
  /\ Len(cands) <= 5
  /\ \A i, j \in 1..Len(cands) :
       i < j => distanceToPickup[cands[i]] < distanceToPickup[cands[j]]
  /\ \A i \in 1..Len(cands) : InReach(cands[i])
  /\ \A d \in DOMAIN isAvailable :
       (InReach(d) /\ \A i \in 1..Len(cands) : cands[i] # d)
         => /\ Len(cands) = 5
            /\ \A i \in 1..Len(cands) : distanceToPickup[cands[i]] < distanceToPickup[d]

\* C26: one call of assignOrder tries the 5 nearest candidates one after the other,
\* nearest first, passes over a candidate only when it is contended and stops at the
\* first placed offer: it appends at most one attempt, sets at most one lock pair and
\* notifies at most one driver, the nearest candidate that was not contended
C26_SequentialNearestFirst ==
  [][\A p \in Procs :
       LET pr == procs[p]
           nx == procs'[p]
       IN (pr.op = "assignOrder" /\ Steps(p)) =>
            /\ pr.pc = "a_search"
                 => /\ FiveNearest(nx.cands)
                    /\ nx.cands # <<>> => nx.pc = "o_getdriver"
            /\ pr.pc # "a_search"
                 => \/ nx.cands = pr.cands
                    \/ pr.cands # <<>> /\ nx.cands = Tail(pr.cands)
                    \/ nx.cands = <<>>
            /\ pr.pc = "o_getdriver"
                 => IF redisGet(redis, driverLockKey(Head(pr.cands))) # Null
                      THEN nx.cands = Tail(pr.cands)
                      ELSE nx.pc = "o_getorder" /\ nx.cands = pr.cands
            /\ pr.pc = "o_getorder"
                 => IF redisGet(redis, orderLockKey(pr.o)) \notin {Null, Head(pr.cands)}
                      THEN nx.cands = Tail(pr.cands)
                      ELSE nx.pc = "o_setdriver" /\ nx.cands = pr.cands
            /\ pr.pc = "o_setdriver"
                 => /\ nx.pc = "o_setorder" /\ nx.cands = pr.cands
                    /\ redis' = [redis EXCEPT ![driverLockKey(Head(pr.cands))] =
                                   [val |-> pr.o, exp |-> now + lockTimeout]]
            /\ pr.pc = "o_setorder"
                 => /\ nx.pc = "o_savelock" /\ nx.cands = pr.cands
                    /\ redis' = [redis EXCEPT ![orderLockKey(pr.o)] =
                                   [val |-> Head(pr.cands), exp |-> now + lockTimeout]]
            /\ pr.pc = "o_savelock"
                 => /\ nx.pc = "o_saveattempt" /\ nx.cands = pr.cands
                    /\ orders'[pr.o].attempts = orders[pr.o].attempts
            /\ pr.pc = "o_saveattempt"
                 => /\ nx.pc = "a_del_ok" /\ nx.cands = <<>>
                    /\ orders'[pr.o].attempts =
                         Append(orders[pr.o].attempts,
                                [driverId |-> Head(pr.cands), response |-> "pending"])
            /\ pr.pc \notin {"o_setdriver", "o_setorder"}
                 => \A k \in DOMAIN redis \ {assignmentLockKey(pr.o)} :
                      redis[k].val = Null => redis'[k].val = Null
            /\ (pr.pc # "o_saveattempt" /\ pr.o \in DOMAIN orders)
                 => orders'[pr.o].attempts = orders[pr.o].attempts
            /\ pr.pc = "a_del_ok" => nx = Idle
    ]_vars

\* the five nearest drivers are under offer for other orders and the sixth is free:
\* the call has gone through the five and ends without an offer
C26_Witness ==
  \E p \in Procs :
    /\ procs[p].op = "assignOrder" /\ At(p, "a_del_none")
    /\ \A d \in Fleet : isAvailable[d]
    /\ \A d \in Fleet \ {"d6"} : redisGet(redis, driverLockKey(d)) # Null
    /\ redisGet(redis, driverLockKey("d6")) = Null
    /\ orders[procs[p].o].attempts = <<>>

\* the two nearest drivers are under offer for other orders: the offer went to the
\* third
OfferToNearestFree ==
  \E p \in Procs :
    /\ procs[p].op = "assignOrder" /\ At(p, "a_del_ok")
    /\ \A d \in Fleet : isAvailable[d]
    /\ redisGet(redis, driverLockKey("d1")) = "o2"
    /\ redisGet(redis, driverLockKey("d2")) = "o2"
    /\ redisGet(redis, driverLockKey("d3")) = "o1"
    /\ orders["o1"].attempts = <<[driverId |-> "d3", response |-> "pending"]>>

NoneAccepted == "No driver accepted the order"

\* C27: when every tried candidate is contended (driver lock held, or order lock held
\* for another driver), each contention takes the call to the next candidate in one
\* step and assignOrder fails with 'No driver accepted the order'; the call changes no
\* order, no isAvailable and no key other than its own order_assignment key
C27_AllContendedFails ==
  [][\A p \in Procs :
       LET pr == procs[p]
           nx == procs'[p]
       IN (pr.op = "assignOrder" /\ Steps(p)) =>
            /\ (\/ /\ pr.pc = "o_getdriver"
                      /\ redisGet(redis, driverLockKey(Head(pr.cands))) # Null
                   \/ /\ pr.pc = "o_getorder"
                      /\ redisGet(redis, orderLockKey(pr.o)) \notin {Null, Head(pr.cands)})
                 => IF Len(pr.cands) > 1
                      THEN nx.pc = "o_getdriver" /\ nx.cands = Tail(pr.cands) /\ nx.err = Null
                      ELSE nx.pc = "a_del_none" /\ nx.err = NoneAccepted
            /\ (pr.pc \in {"o_getdriver", "o_getorder"} \/ pr.err = NoneAccepted)
                 => /\ UNCHANGED <<orders, isAvailable, timers, emitted>>
                    /\ \A k \in DOMAIN redis \ {assignmentLockKey(pr.o)} :
                         redis'[k] = redis[k]
            /\ pr.pc \in {"a_del_none", "a_del_catch"}
                 => redisGet(redis', assignmentLockKey(pr.o)) = Null
            /\ pr.pc \in {"o_setdriver", "o_setorder", "o_savelock", "o_saveattempt"}
                 => nx.err = Null /\ nx.pc \notin {"o_getdriver", "a_del_none"}
    ]_vars

\* a second call for an order under offer to d1: d1's driver lock is held, the order
\* lock is held for d1 when d2 is tried, and the call is rejected
C27_Witness ==
  \E p \in Procs :
    /\ procs[p].op = "assignOrder" /\ At(p, "a_rejected")
    /\ procs[p].err = NoneAccepted
    /\ orders[procs[p].o].status = "pending"
    /\ orders[procs[p].o].attempts = <<[driverId |-> "d1", response |-> "pending"]>>
    /\ redisGet(redis, driverLockKey("d1")) = procs[p].o
    /\ redisGet(redis, orderLockKey(procs[p].o)) = "d1"
    /\ redisGet(redis, driverLockKey("d2")) = Null
    /\ isAvailable["d2"]

\* C28: an offer is placed only to a driver whose isAvailable is true at that moment:
\* no step locks an order for, or appends a pending attempt of, a driver whose
\* isAvailable is false
C28_OfferOnlyToAvailableDriver ==
  [][\A o \in DOMAIN orders :
       /\ (/\ orders'[o].isLocked
           /\ ~orders[o].isLocked \/ orders'[o].lockedBy # orders[o].lockedBy)
            => isAvailable[orders'[o].lockedBy]
       /\ Len(orders'[o].attempts) > Len(orders[o].attempts)
            => isAvailable[orders'[o].attempts[Len(orders'[o].attempts)].driverId]
    ]_vars

\* C29: the assignment engine changes a driver's isAvailable only in the accept
\* branch of handleDriverResponse and only to false: every other step of assignOrder
\* (with its offers), handleDriverResponse, cleanupExpiredLocks and markOrderAsFailed
\* leaves isAvailable unchanged, and no engine step sets a driver's isAvailable to true
C29_EngineOnlyClearsAvailability ==
  [][\A p \in Procs :
       (Steps(p) /\ (procs[p].op \in EngineOps \/ procs'[p].op \in EngineOps)) =>
         IF Accepting(p) /\ procs[p].pc = "h_user"
           THEN isAvailable' = [isAvailable EXCEPT ![procs[p].d] = FALSE]
           ELSE isAvailable' = isAvailable
    ]_vars

\* an accept has cleared the availability of its driver after an earlier offer of the
\* order was declined or timed out, and the other driver is still available
C29_Witness ==
  /\ \E p \in Procs : Accepting(p) /\ procs[p].pc = "h_deldriver"
                        /\ ~isAvailable[procs[p].d]
  /\ \E d \in Drivers : isAvailable[d]
  /\ \E o \in DOMAIN orders :
       \E i \in 1..Len(orders[o].attempts) :
         orders[o].attempts[i].response \in {"declined", "timeout"}

\* C30: in every reachable state of a stored order, isLocked true implies that lockedBy
\* names a driver and lockExpiration is a date later than the time the lock was taken
\* (at least lockTimeout past the start of the clock)
C30_LockedOrderHasLockFields ==
  \A o \in DOMAIN orders :
    orders[o].isLocked =>
      /\ orders[o].lockedBy \in Drivers
      /\ orders[o].lockExpiration \notin {NoDate, UndefinedDate}
      /\ orders[o].lockExpiration >= lockTimeout

(***************************************************************************)
(* The engine stops in the middle of an offer; TTLs and the periodic sweep *)
(***************************************************************************)
\* the server process dies while offerOrderToDriver is between its awaits: every
\* request in flight and every timer is gone, the stores keep what was written
Crash ==
  /\ \E p \in Procs : procs[p].op = "assignOrder" /\ procs[p].pc \in OfferLabels
  /\ procs' = [p \in Procs |-> Idle]
  /\ timers' = [o \in Orders |-> 0]
  /\ UNCHANGED <<orders, isAvailable, redis, now, emitted>>

\* two orders placed when the clock starts, one or two candidate drivers who never respond,
\* the sweep; requests run to completion unless the server dies, the clock advances
\* and the sweep's interval keeps firing
NextCrash ==
  \/ \E p \in Procs : AssignStep(p)
  \/ \E p \in Procs, o \in Orders : now = 0 /\ CreateOrder(p, o)
  \/ Crash
  \/ \E p \in Procs : SweepStep(p)
  \/ QuietTick
SpecCrash ==
  /\ InitBatch /\ [][NextCrash]_vars
  /\ \A p \in Procs : WF_vars(AssignStep(p)) /\ WF_vars(SweepStep(p))
  /\ WF_vars(QuietTick)

\* C31: whenever an offer was placed (a lock key written or the order saved as locked)
\* and neither the driver responds nor the engine completes its steps, the driver's
\* lock key, the order's lock key and the order's isLocked flag are all eventually
\* released, given that key TTLs expire and the periodic sweep keeps running
C31_LocksEventuallyReleased ==
  /\ \A d \in Drivers :
       (redis[driverLockKey(d)].val # Null) ~> (redis[driverLockKey(d)].val = Null)
  /\ \A o \in Orders :
       (redis[orderLockKey(o)].val # Null) ~> (redis[orderLockKey(o)].val = Null)
  /\ \A o \in Orders :
       (o \in DOMAIN orders /\ orders[o].isLocked)
         ~> (o \in DOMAIN orders /\ ~orders[o].isLocked)

\* the server died after the order was saved as locked and before the attempt was
\* recorded, and the sweep has released the order after its lock ran out
C31_Witness ==
  /\ now > lockTimeout
  /\ \E o \in DOMAIN orders :
       /\ ~orders[o].isLocked
       /\ orders[o].lockedBy = Null
       /\ orders[o].attempts = <<>>
  /\ \A k \in Keys : redis[k].val = Null

\* two orders, one driver in reach: the driver declines o1, whose retry is scheduled,
\* and accepts o2, which takes the driver away
NextPair ==
  \/ Dispatch(Orders)
  \/ \E p \in Procs : RespondStep(p)
  \/ \E p \in Procs : RetryFire(p, "o1", MaxAttempts)
  \/ \E p \in Procs : timers["o1"] < MaxTimers /\ RespondFind(p, "o1", "d1", "decline")
  \/ \E p \in Procs : RespondFind(p, "o2", "d1", "accept")
SpecPair == InitOrders /\ [][NextPair]_vars

C33_OfferResolvedAtMostOnce ==
  [][\A o \in DOMAIN orders :
       /\ timers'[o] > timers[o]
            => timers[o] = 0 /\ orders[o].status = "pending"
       /\ (orders'[o].status = "accepted" /\ orders[o].status # "accepted")
            => /\ timers[o] = 0
               /\ \A q \in Procs :
                    ~(/\ procs[q].op = "assignOrder" /\ procs[q].retry
                      /\ procs[q].o = o /\ procs[q].pc # "a_del_ok")
    ]_vars

\* C34: whenever a stored order is locked (isLocked true) by driver d and its
\* lockExpiration has not passed, the lock store agrees: order_lock:{o} holds d and
\* driver_lock:{d} holds o
C34_StoredLockAgreesWithLockStore ==
  \A o \in DOMAIN orders :
    (/\ orders[o].isLocked
     /\ orders[o].lockedBy \in Drivers
     /\ orders[o].lockExpiration > now)
      => /\ redisGet(redis, orderLockKey(o)) = orders[o].lockedBy
         /\ redisGet(redis, driverLockKey(orders[o].lockedBy)) = o

(***************************************************************************)
(* The in-progress marker on the exit paths of assignOrder                 *)
(***************************************************************************)
SearchFailed == "Error finding nearby drivers"

\* User.find of findNearbyDrivers rejects: its catch rethrows, the inner catch of
\* assignOrder deletes the marker and rethrows
SearchFails(p) ==
  /\ At(p, "a_search")
  /\ procs' = [procs EXCEPT ![p] = Thrown(@, "a_del_catch", SearchFailed)]
  /\ UNCHANGED <<orders, isAvailable, redis, now, timers, emitted>>

\* one order, assignOrder called again at any moment, store calls of the search and
\* of the offers that may reject
NextMarker == NextOffer \/ \E p \in Procs : SearchFails(p)
SpecMarker == Init /\ [][NextMarker]_vars

\* the labels of an assignOrder call between setting the marker and deleting it
HoldsMarker ==
  {"a_search", "o_getdriver", "o_getorder", "o_setdriver", "o_setorder", "o_savelock",
   "o_saveattempt"}
DeletesMarker == {"a_del_ok", "a_del_nodrivers", "a_del_none", "a_del_catch"}

validStatuses == {"pickup_started", "picked_up", "in_transit", "delivered"}

statusFlow(status) ==
  CASE status = "accepted" -> {"pickup_started"}
    [] status = "pickup_started" -> {"picked_up"}
    [] status = "picked_up" -> {"in_transit"}
    [] status = "in_transit" -> {"delivered"}
    [] OTHER -> {}

\* the body's status is valid, Order.findOne, the driver is the assigned one and the
\* transition is in statusFlow; a refused request answers 400, 403 or 404
StatusFind(p, o, d, status) ==
  /\ FreeSlot(p)
  /\ status \in validStatuses
  /\ o \in DOMAIN orders
  /\ orders[o].driver = d
  /\ status \in statusFlow(orders[o].status)
  /\ procs' = [procs EXCEPT ![p] =
       [Idle EXCEPT !.op = "status", !.pc = "s_save", !.o = o, !.d = d,
                    !.resp = status, !.doc = orders[o]]]
  /\ UNCHANGED <<orders, isAvailable, redis, now, timers, emitted>>

\* order.updateStatus(status); await order.save(); a failed save answers 500
StatusSave(p) ==
  /\ At(p, "s_save")
  /\ LET pr == procs[p]
         new == updateStatus(pr.doc, pr.resp, Null)
     IN IF SaveResult(orders[pr.o], pr.doc, new) = "ok"
          THEN /\ orders' = [orders EXCEPT ![pr.o] = SavedDoc(@, pr.doc, new)]
               /\ procs' = [procs EXCEPT ![p] =
                    IF pr.resp = "delivered"
                      THEN [pr EXCEPT !.pc = "s_user", !.doc = LocalAfterSave(pr.doc, new)]
                      ELSE Idle]
          ELSE /\ procs' = [procs EXCEPT ![p] = Idle]
               /\ UNCHANGED orders
  /\ UNCHANGED <<isAvailable, redis, now, timers, emitted>>

\* User.findByIdAndUpdate(req.user._id, {'driverDetails.isAvailable': true, ...})
StatusUpdateUser(p) ==
  /\ At(p, "s_user")
  /\ isAvailable' = [isAvailable EXCEPT ![procs[p].d] = TRUE]
  /\ procs' = [procs EXCEPT ![p] = Idle]
  /\ UNCHANGED <<orders, redis, now, timers, emitted>>

StatusRoute(placed) ==
  \/ \E p \in Procs, o \in placed, d \in Drivers, status \in StatusEnum :
       StatusFind(p, o, d, status)
  \/ \E p \in Procs : StatusSave(p) \/ StatusUpdateUser(p)

\* one order, no or one driver in reach who answers the offer and reports the
\* order's progress, the customer who may cancel
InitStatus == \E online \in {{}, {"d1"}} : InitWith(online)
NextStatus ==
  \/ Dispatch({"o1"})
  \/ Answers({"o1"}, MaxAttempts, Responses)
  \/ StatusRoute({"o1"})
  \/ Cancel({"o1"})
SpecStatus == InitStatus /\ [][NextStatus]_vars

\* C36: through PUT /:orderId/status the stored status of an order changes only along
\* accepted -> pickup_started -> picked_up -> in_transit -> delivered, one step at a
\* time and only by the driver assigned to the order; a request that is not such a
\* step leaves the order unchanged, and the step that follows the save of 'delivered'
\* sets the driver's isAvailable to true
C36_StatusRouteFollowsTheFlow ==
  [][\A p \in Procs :
       (Steps(p) /\ procs[p].op = "status") =>
         LET o == procs[p].o
         IN /\ orders'[o] # orders[o] =>
                 /\ orders'[o].status \in statusFlow(orders[o].status)
                 /\ orders[o].driver = procs[p].d
                 /\ orders'[o] = [orders[o] EXCEPT !.status = orders'[o].status]
            /\ procs[p].pc = "s_user" => isAvailable'[procs[p].d]
    ]_vars

(***************************************************************************)
(* Socket event 'cancel_order' (customer)                                  *)
(***************************************************************************)
\* Order.findOne and the check ['delivered', 'cancelled'].includes(order.status); the
\* handler then runs order.updateStatus('cancelled'), save and the driver's User
\* update as the cancel route does (CancelSave, CancelUpdateUser)
SocketCancelFind(p, o) ==
  /\ FreeSlot(p)
  /\ o \in DOMAIN orders
  /\ orders[o].status \notin {"delivered", "cancelled"}
  /\ procs' = [procs EXCEPT ![p] =
       [Idle EXCEPT !.op = "cancel_order", !.pc = "k_save", !.o = o, !.doc = orders[o]]]
  /\ UNCHANGED <<orders, isAvailable, redis, now, timers, emitted>>

\* the routes of SpecStatus and the socket cancellation
NextSocket == NextStatus \/ \E p \in Procs : SocketCancelFind(p, "o1")
SpecSocket == InitStatus /\ [][NextSocket]_vars

CancelOps == {"cancel", "cancel_order"}

\* C37: an order that is in progress cannot be cancelled: no step of a cancellation
\* (PUT /:orderId/cancel or the socket event 'cancel_order') changes an order whose
\* stored status is 'picked_up', 'in_transit', 'delivered' or 'cancelled'
C37_InProgressOrderIsNotCancelled ==
  [][\A p \in Procs :
       (/\ Steps(p)
        /\ procs[p].op \in CancelOps
        /\ orders[procs[p].o].status \in nonCancellableStatuses \cup inProgressStatuses)
         => orders'[procs[p].o] = orders[procs[p].o]
    ]_vars

(***************************************************************************)
(* Driver availability: PUT /drivers/status, PUT /drivers/availability,    *)
(* socket event 'toggle_availability'                                      *)
(***************************************************************************)
\* Order.countDocuments({driver, status: {$nin: ['delivered', 'cancelled']}})
activeOrders(d) ==
  Cardinality({o \in DOMAIN orders :
                 orders[o].driver = d /\ orders[o].status \notin {"delivered", "cancelled"}})

\* PUT /status: going available is refused (400) while the driver has active orders
DriverStatusCheck(p, d, value) ==
  /\ FreeSlot(p)
  /\ value => activeOrders(d) = 0
  /\ procs' = [procs EXCEPT ![p] =
       [Idle EXCEPT !.op = "driver_status", !.pc = "v_update", !.d = d,
                    !.retry = value]]
  /\ UNCHANGED <<orders, isAvailable, redis, now, timers, emitted>>

\* PUT /status: User.findByIdAndUpdate(req.user._id, {'driverDetails.isAvailable'})
DriverStatusUpdate(p) ==
  /\ At(p, "v_update")
  /\ isAvailable' = [isAvailable EXCEPT ![procs[p].d] = procs[p].retry]
  /\ procs' = [procs EXCEPT ![p] = Idle]
  /\ UNCHANGED <<orders, redis, now, timers, emitted>>

\* PUT /availability: one User.findByIdAndUpdate with the body's value
PutAvailability(d, value) ==
  /\ isAvailable' = [isAvailable EXCEPT ![d] = value]
  /\ UNCHANGED <<orders, redis, now, procs, timers, emitted>>

\* socket 'toggle_availability': one User.findByIdAndUpdate with the event's value
ToggleAvailability(d, value) ==
  /\ isAvailable' = [isAvailable EXCEPT ![d] = value]
  /\ UNCHANGED <<orders, redis, now, procs, timers, emitted>>

Availability(D) ==
  \/ \E p \in Procs, d \in D, value \in BOOLEAN : DriverStatusCheck(p, d, value)
  \/ \E p \in Procs : DriverStatusUpdate(p)
  \/ \E d \in D, value \in BOOLEAN : PutAvailability(d, value)
  \/ \E d \in D, value \in BOOLEAN : ToggleAvailability(d, value)

\* one order, one driver in reach who answers the offers and switches availability
NextAvailability ==
  \/ Dispatch({"o1"})
  \/ Answers({"o1"}, MaxAttempts, Responses)
  \/ Availability({"d1"})
SpecAvailability == InitOrders /\ [][NextAvailability]_vars

\* a step of one of the three availability operations
AvailabilityStep ==
  \/ procs' = procs /\ isAvailable' # isAvailable
  \/ \E p \in Procs : Steps(p) /\ procs[p].op = "driver_status"

\* C38: a driver who has an active order (assigned to the driver, status other than
\* 'delivered' or 'cancelled') cannot become available: no step of PUT /drivers/status,
\* PUT /drivers/availability or 'toggle_availability' turns isAvailable of such a
\* driver to true
C38_NoAvailabilityWithActiveOrder ==
  [][\A d \in Drivers :
       (AvailabilityStep /\ isAvailable'[d] /\ ~isAvailable[d]) => activeOrders(d) = 0
    ]_vars

(***************************************************************************)
(* MockRedisClient, the in-memory store used when no Redis is configured:  *)
(* this.store is the val of each key, every setEx leaves a setTimeout      *)
(* behind.  exp records when the most recent setEx of the key runs out     *)
(* (what its caller was promised); the Map itself holds no expiry.         *)
(***************************************************************************)
MaxMockTime == 3
MockKeys == {driverLockKey("d1"), orderLockKey("o1")}
MockValues == {"o1", "d1"}
MockSeconds == {1, 2}

\* new MockRedisClient(): an empty Map, no timeout pending
InitMock ==
  /\ orders = [o \in {} |-> NewOrder]
  /\ isAvailable = [d \in Drivers |-> FALSE]
  /\ redis = [k \in MockKeys |-> NoEntry]
  /\ now = 0
  /\ procs = [p \in Procs |-> Idle]
  /\ timers = [k \in MockKeys |-> {}]
  /\ emitted = {}

\* setEx(key, seconds, value): store.set(key, value); setTimeout(() =>
\* store.delete(key), seconds * 1000)
MockSetEx(key, seconds, value) ==
  /\ now + seconds <= MaxMockTime
  /\ redis' = [redis EXCEPT ![key] = [val |-> value, exp |-> now + seconds]]
  /\ timers' = [timers EXCEPT ![key] = @ \cup {now + seconds}]
  /\ UNCHANGED <<orders, isAvailable, now, procs, emitted>>

\* del(key): store.delete(key); the pending timeouts stay
MockDel(key) ==
  /\ redis' = [redis EXCEPT ![key] = NoEntry]
  /\ UNCHANGED <<orders, isAvailable, now, procs, timers, emitted>>

\* a timeout left by a setEx is due: store.delete(key)
MockTimeout(key, due) ==
  /\ due \in timers[key]
  /\ due <= now
  /\ redis' = [redis EXCEPT ![key].val = Null]
  /\ timers' = [timers EXCEPT ![key] = @ \ {due}]
  /\ UNCHANGED <<orders, isAvailable, now, procs, emitted>>

\* a second passes once every due timeout has run
MockTick ==
  /\ now < MaxMockTime
  /\ \A k \in MockKeys : \A due \in timers[k] : due > now
  /\ now' = now + 1
  /\ UNCHANGED <<orders, isAvailable, redis, procs, timers, emitted>>

NextMock ==
  \/ \E k \in MockKeys, s \in MockSeconds, v \in MockValues : MockSetEx(k, s, v)
  \/ \E k \in MockKeys : MockDel(k)
  \/ \E k \in MockKeys, due \in 0..MaxMockTime : MockTimeout(k, due)
  \/ MockTick
SpecMock == InitMock /\ [][NextMock]_vars

\* C39: in MockRedisClient a key written with setEx(key, ttl, value) and not deleted
\* since stays present for the full ttl counted from its most recent setEx: while that
\* ttl has not run out the key holds a value
C39_MockKeyLivesItsFullTtl ==
  \A k \in DOMAIN redis :
    (redis[k].exp # NoDate /\ now < redis[k].exp) => redis[k].val # Null

====
